---- MODULE Spec2Model ----
(***************************************************************************)
(* react-byblos: the Byblos component (src/src/Byblos.tsx).  Three         *)
(* useFetch stages (buffer -> document -> page), the lifecycle effects,    *)
(* the derived outputs loading / success / error, the canvas render effect *)
(* and the fallback selection.                                             *)
(*                                                                         *)
(* useFetch and suspend are imported by Byblos.tsx from ./use-fetch and    *)
(* ./suspend, which are not among the source files; they are modelled from *)
(* the specification's AsyncStageRunner and DeferredSignal (sections 3,    *)
(* 4.1, 4.2).                                                              *)
(*                                                                         *)
(* One update pass of React (render, commit, effects) is one step, Render. *)
(* A state update made by an effect or by a completing run marks the       *)
(* component dirty; the next Render publishes it.  Host updates and run    *)
(* completions are separate tasks of the event loop and are taken only     *)
(* when no update pass is outstanding.  Unmount tears the component down;  *)
(* the runs in flight then still settle.                                   *)
(***************************************************************************)
EXTENDS Integers, Sequences, FiniteSets, TLC

\* ---------------------------------------------------------------- bounds
\* Host updates (re-renders with new props) after the mount.
MaxChanges == 1

\* An optional prop that is not passed (page?, scale?, fetchOptions?, on...?).
Undefined == 0

\* Pages of a decoded document (the decoder's data).
DocumentPages == {1, 2}

StageSet == {"buffer", "document", "page"}

\* The sources the host supplies: a URL without fetch options, a second URL
\* with fetch options, a blob (ByblosPropsBlob has no fetch options).
Sources ==
  {[type |-> "url", value |-> 1, fetchOptions |-> Undefined],
   [type |-> "url", value |-> 2, fetchOptions |-> 1],
   [type |-> "blob", value |-> 1, fetchOptions |-> Undefined]}
\* The page indices the host requests: none (page 1), a page of the
\* document, a page past its end.
PageProps == {Undefined, 2, 3}
ScaleProps == {Undefined, 2}
\* The identity of the callbacks the host passes (Undefined: none passed).
HandlerProps == {Undefined, 1, 2}

Props ==
  {[type |-> s.type, value |-> s.value, fetchOptions |-> s.fetchOptions,
    page |-> pg, scale |-> sc, handlers |-> h] :
     s \in Sources, pg \in PageProps, sc \in ScaleProps, h \in HandlerProps}

\* ------------------------------------------------------------ JS values
\* a ?? b
Default(v, d) == IF v = Undefined THEN d ELSE v

\* The boolean false, as the value of an && / || chain.
JsFalse == "false"
\* A rejection reason that is falsy: fetch rejects with the abort reason of
\* fetchOptions.signal, which may be any value (0, '', null, false).
FalsyReason == "0"
NoError == "none"

Truthy(v) == v \notin {JsFalse, FalsyReason}
JsAnd(c, v) == IF c THEN v ELSE JsFalse
JsOr(a, b) == IF Truthy(a) THEN a ELSE b

\* ------------------------------------------------------------ StageResult
NoData == <<>>
Idle == [status |-> "idle", data |-> NoData, error |-> NoError]
Pending == [status |-> "pending", data |-> NoData, error |-> NoError]
Success(d) == [status |-> "success", data |-> d, error |-> NoError]
Failure(e) == [status |-> "failure", data |-> NoData, error |-> e]

VARIABLES
  props,      \* the props of the host's latest update
  changes,    \* host updates so far
  mounted,    \* the first update pass has run and the component is mounted
  torn,       \* the component has been unmounted
  dirty,      \* an update pass is outstanding
  st,         \* each stage's StageResult (the useFetch state)
  token,      \* each stage's current RunToken
  runs,       \* the runs in flight
  seen,       \* the props and stage results of the last update pass
  shown,      \* what the last update pass returned: loading, error or canvas
  out,        \* the derived outputs of the last update pass
  surface,    \* the canvas's pixel dimensions
  context2d,  \* whether the mounted canvas's getContext('2d') yields a
              \* context (TRUE while no canvas is mounted)
  fired,      \* the callbacks and draw calls of the last step, in order
  last        \* the last step: its kind, the stages whose producer it
              \* invoked, the run it settled

vars ==
  <<props, changes, mounted, torn, dirty, st, token, runs, seen, shown, out,
    surface, context2d, fired, last>>


\* ------------------------------------------------------------- producers
\* What the external collaborators can reject with.  fetch rejects with a
\* TypeError, or with the abort reason of the signal in fetchOptions; reading
\* a blob rejects with a NotReadableError.
BufferErrors(p) ==
  IF p.type = "url"
    THEN {"TypeError"} \cup
         (IF p.fetchOptions # Undefined THEN {FalsyReason} ELSE {})
    ELSE {"NotReadableError"}
DocumentErrors == {"InvalidPDFException"}
PageErrors == {"InvalidPageRequest"}

\* suspend(): the DeferredSignal.  A producer that returns it starts no run.
Suspend == {}

\* A run in flight: the stage, its RunToken, the value it resolves with when
\* it can resolve, and the errors it can reject with.
Run(stage, tok, data, resolves, errors) ==
  {[stage |-> stage, tok |-> tok, data |-> data, resolves |-> resolves,
    errors |-> errors]}

\* async (wrap) => { fetch(props.value, props.fetchOptions) or
\* new Response(props.value); return response.arrayBuffer() }
BufferProducer(p, tok) ==
  Run("buffer", tok, <<tok, p.value>>, TRUE, BufferErrors(p))

\* Mutant: the producer defers only on a failed upstream, and decodes the
\* data of a pending one (undefined), which the decoder rejects.
DocumentProducerEager(bufferResult, tok) ==
  IF bufferResult.status = "success"
    THEN Run("document", tok, <<tok, bufferResult.data[1]>>, TRUE, DocumentErrors)
    ELSE IF bufferResult.status = "pending"
      THEN Run("document", tok, NoData, FALSE, DocumentErrors)
      ELSE Suspend

\* if (bufferResult.status === 'success') getDocument(bufferResult.data)
\* else suspend()
DocumentProducer(bufferResult, tok) ==
  IF bufferResult.status = "success"
    THEN Run("document", tok, <<tok, bufferResult.data[1]>>, TRUE, DocumentErrors)
    ELSE Suspend

\* if (documentResult.status === 'success')
\*   documentResult.data.getPage(page ?? 1) else suspend()
PageProducer(documentResult, page, tok) ==
  IF documentResult.status = "success"
    THEN Run("page", tok, <<tok, documentResult.data[1], Default(page, 1)>>,
             Default(page, 1) \in DocumentPages, PageErrors)
    ELSE Suspend

\* ------------------------------------------------------- dependency keys
\* Mutant: the page index among the buffer stage's dependencies.
BufferKeyWithPage(p, b, d) == <<p.type, p.value, p.fetchOptions, p.page>>

BufferKey(p, b, d) == <<p.type, p.value, p.fetchOptions>>
\* Mutant: the page index among the document stage's dependencies.
DocumentKeyWithPage(p, b, d) == <<b, p.page>>

DocumentKey(p, b, d) == <<b>>
\* Mutant: the page index left out of the page stage's dependencies.
PageKeyWithoutPage(p, b, d) == <<d>>

\* Mutant: the scale among the page stage's dependencies.
PageKeyWithScale(p, b, d) == <<d, p.page, p.scale>>

PageKey(p, b, d) == <<d, p.page>>

\* --------------------------------------------------------------- useFetch
\* Mutant: a stage whose producer returns the DeferredSignal is set back to
\* Idle.
RunnerStateBackToIdle(result, changed, produced) ==
  IF ~changed THEN result
  ELSE IF produced = Suspend THEN Idle
  ELSE Pending

\* Mutant: a stage whose producer returns the DeferredSignal keeps the
\* result it has.
RunnerStateKeptOnSuspend(result, changed, produced) ==
  IF ~changed THEN result
  ELSE IF produced = Suspend THEN result
  ELSE Pending

\* The state a stage is left in by run(producer, key): unchanged while the
\* key is unchanged; Pending once a run is started; when the producer
\* returns the DeferredSignal the stage stays Idle or Pending, and a stage
\* that held a result of the superseded key is reset to Pending.
RunnerState(result, changed, produced) ==
  IF ~changed THEN result
  ELSE IF produced = Suspend /\ result.status = "idle" THEN result
  ELSE Pending

\* A new RunToken is minted each time the key changes.
RunnerToken(tok, changed) == IF changed THEN tok + 1 ELSE tok

\* Mutant: tearing down leaves the tokens of the runs in flight current.
TornDownKeepsTokens(tokens) == tokens

\* Tearing the stages down invalidates their tokens: no run in flight holds
\* the token a torn-down stage is left with.
TornDown(tokens) == [s \in StageSet |-> 0]

\* Mutant: a completing run is applied whatever its token.
AppliesAlways(r) == TRUE

\* On completion the result is applied iff the run's token is still current.
Applies(r) == r.tok = token[r.stage]

Outcomes(r) ==
  (IF r.resolves THEN {Success(r.data)} ELSE {}) \cup
  {Failure(e) : e \in r.errors}

\* -------------------------------------------------------- derived outputs
\* Mutant: the page stage left out of loading.
LoadingWithoutPage(b, d, pg) ==
  b.status = "pending" \/ d.status = "pending"

Loading(b, d, pg) ==
  b.status = "pending" \/ d.status = "pending" \/ pg.status = "pending"

IsSuccess(pg) == pg.status = "success"

Error(b, d, pg) ==
  JsOr(JsOr(JsAnd(b.status = "failure", b.error),
            JsAnd(d.status = "failure", d.error)),
       JsAnd(pg.status = "failure", pg.error))

\* if (loading) loadingFallback; if (error) errorFallback; <canvas/>
Display(loading, error) ==
  IF loading THEN "loading" ELSE IF Truthy(error) THEN "error" ELSE "canvas"

\* ---------------------------------------------------------------- effects
Call(cb, data, error) == <<[cb |-> cb, data |-> data, error |-> error]>>
NoCall == <<>>

\* useEffect(..., [documentResult, onDocumentSuccess])
OnDocumentSuccessEffect(first, p, q, d, d0) ==
  IF (first \/ d # d0 \/ p.handlers # q.handlers)
     /\ d.status = "success" /\ p.handlers # Undefined
    THEN Call("onDocumentSuccess", d.data, NoError) ELSE NoCall

\* useEffect(..., [pageResult, onPageSuccess])
OnPageSuccessEffect(first, p, q, pg, pg0) ==
  IF (first \/ pg # pg0 \/ p.handlers # q.handlers)
     /\ pg.status = "success" /\ p.handlers # Undefined
    THEN Call("onPageSuccess", pg.data, NoError) ELSE NoCall

\* Mutant: the effect without its test of loading.
OnLoadingEffectOnChange(first, p, q, loading, loading0) ==
  IF (first \/ loading # loading0 \/ p.handlers # q.handlers)
     /\ p.handlers # Undefined
    THEN Call("onLoading", NoData, NoError) ELSE NoCall

\* useEffect(..., [onLoading, loading])
OnLoadingEffect(first, p, q, loading, loading0) ==
  IF (first \/ loading # loading0 \/ p.handlers # q.handlers)
     /\ loading /\ p.handlers # Undefined
    THEN Call("onLoading", NoData, NoError) ELSE NoCall

\* useEffect(..., [onSuccess, success])
OnSuccessEffect(first, p, q, success, success0) ==
  IF (first \/ success # success0 \/ p.handlers # q.handlers)
     /\ success /\ p.handlers # Undefined
    THEN Call("onSuccess", NoData, NoError) ELSE NoCall

\* useEffect(..., [onFailure, error])
OnFailureEffect(first, p, q, error, error0) ==
  IF (first \/ error # error0 \/ p.handlers # q.handlers)
     /\ Truthy(error) /\ p.handlers # Undefined
    THEN Call("onFailure", NoData, error) ELSE NoCall

\* pageData.getViewport({ scale }): the page's dimensions times the scale.
PageSize(index) == <<index, index + 1>>
Viewport(pageData, scale) ==
  <<PageSize(pageData[3])[1] * scale, PageSize(pageData[3])[2] * scale>>

\* A canvas element as the browser creates it, and no canvas at all.
DefaultSurface == <<300, 150>>
NoSurface == <<0, 0>>

\* Mutant: the page result left out of the render effect's dependencies.
DrawsOnScaleOnly(first, p, q, pg, pg0, canvas, context) ==
  /\ first \/ p.scale # q.scale
  /\ canvas /\ pg.status = "success"
  /\ context

\* Mutant: the scale left out of the render effect's dependencies.
DrawsOnPageOnly(first, p, q, pg, pg0, canvas, context) ==
  /\ first \/ pg # pg0
  /\ canvas /\ pg.status = "success"
  /\ context

\* useEffect(..., [pageResult, scale]): whether the effect draws.
Draws(first, p, q, pg, pg0, canvas, context) ==
  /\ first \/ pg # pg0 \/ p.scale # q.scale
  /\ canvas /\ pg.status = "success"
  /\ context

RenderEffect(first, p, q, pg, pg0, canvas, context) ==
  IF Draws(first, p, q, pg, pg0, canvas, context)
    THEN Call("draw", pg.data, NoError) ELSE NoCall

\* ---------------------------------------------------------------- actions
Init ==
  /\ props \in Props
  /\ changes = 0
  /\ mounted = FALSE
  /\ torn = FALSE
  /\ dirty = TRUE
  /\ st = [s \in StageSet |-> Idle]
  /\ token = [s \in StageSet |-> 0]
  /\ runs = {}
  /\ seen = [props |-> props, st |-> st]
  /\ shown = "none"
  /\ out = [loading |-> FALSE, success |-> FALSE, error |-> JsFalse]
  /\ surface = NoSurface
  /\ context2d = TRUE
  /\ fired = NoCall
  /\ last = [step |-> "init", invoked |-> {}, settled |-> {}]

\* One update pass: the component function runs on the current props and
\* stage results, its output is committed, and its effects run, those of
\* the three useFetch hooks included.
UpdatePass(p, kind) ==
  /\ LET first == ~mounted
         q == seen.props
         b == st["buffer"]
         d == st["document"]
         pg == st["page"]
         b0 == seen.st["buffer"]
         d0 == seen.st["document"]
         pg0 == seen.st["page"]
         bufferChanged == first \/ BufferKey(p, b, d) # BufferKey(q, b0, d0)
         documentChanged == first \/ DocumentKey(p, b, d) # DocumentKey(q, b0, d0)
         pageChanged == first \/ PageKey(p, b, d) # PageKey(q, b0, d0)
         bufferRun == BufferProducer(p, token["buffer"] + 1)
         documentRun == DocumentProducer(b, token["document"] + 1)
         pageRun == PageProducer(d, p.page, token["page"] + 1)
         loading == Loading(b, d, pg)
         success == IsSuccess(pg)
         error == Error(b, d, pg)
         display == Display(loading, error)
         canvas == display = "canvas"
     IN
     \* A canvas element mounted by this pass may or may not yield a 2d
     \* context; one that stays mounted keeps answering as it did.
     \E context \in (IF ~canvas THEN {TRUE}
                     ELSE IF shown = "canvas" THEN {context2d}
                     ELSE BOOLEAN) :
     LET draws == Draws(first, p, q, pg, pg0, canvas, context)
     IN
       /\ context2d' = context
       /\ st' = [s \in StageSet |->
                   CASE s = "buffer" -> RunnerState(b, bufferChanged, bufferRun)
                     [] s = "document" -> RunnerState(d, documentChanged, documentRun)
                     [] s = "page" -> RunnerState(pg, pageChanged, pageRun)]
       /\ token' = [s \in StageSet |->
                   CASE s = "buffer" -> RunnerToken(token[s], bufferChanged)
                     [] s = "document" -> RunnerToken(token[s], documentChanged)
                     [] s = "page" -> RunnerToken(token[s], pageChanged)]
       /\ runs' = runs \cup (IF bufferChanged THEN bufferRun ELSE {})
                       \cup (IF documentChanged THEN documentRun ELSE {})
                       \cup (IF pageChanged THEN pageRun ELSE {})
       /\ fired' = OnDocumentSuccessEffect(first, p, q, d, d0)
                   \o OnPageSuccessEffect(first, p, q, pg, pg0)
                   \o OnLoadingEffect(first, p, q, loading, out.loading)
                   \o OnSuccessEffect(first, p, q, success, out.success)
                   \o OnFailureEffect(first, p, q, error, out.error)
                   \o RenderEffect(first, p, q, pg, pg0, canvas, context)
       /\ surface' = IF ~canvas THEN NoSurface
                     ELSE IF draws THEN Viewport(pg.data, Default(p.scale, 1))
                     ELSE IF shown = "canvas" THEN surface
                     ELSE DefaultSurface
       /\ shown' = display
       /\ out' = [loading |-> loading, success |-> success, error |-> error]
       /\ seen' = [props |-> p, st |-> st]
       /\ dirty' = (st' # st)
       /\ mounted' = TRUE
       /\ last' = [step |-> kind,
                   invoked |-> {s \in StageSet :
                                  \/ s = "buffer" /\ bufferChanged
                                  \/ s = "document" /\ documentChanged
                                  \/ s = "page" /\ pageChanged},
                   settled |-> {}]


\* The update pass of the mount, and the one React schedules after a state
\* update (setState of a useFetch hook).
Render ==
  /\ dirty /\ ~torn
  /\ UpdatePass(props, IF mounted THEN "render" ELSE "mount")
  /\ UNCHANGED <<props, changes, torn>>

\* The host renders the component again with the props np: an update pass
\* on the new props.
HostUpdateTo(np) ==
  /\ mounted /\ ~dirty
  /\ changes < MaxChanges
  /\ props' = np
  /\ UpdatePass(np, "host")
  /\ changes' = changes + 1
  /\ UNCHANGED torn

\* The host renders the component again, with any props.
HostUpdate == \E np \in Props : HostUpdateTo(np)

\* The host removes the component: its output leaves the document, its
\* effects and state are dropped, its stages are torn down.
Unmount ==
  /\ mounted /\ ~dirty
  /\ mounted' = FALSE
  /\ torn' = TRUE
  /\ token' = TornDown(token)
  /\ shown' = "none"
  /\ surface' = NoSurface
  /\ context2d' = TRUE
  /\ fired' = NoCall
  /\ last' = [step |-> "unmount", invoked |-> {}, settled |-> {}]
  /\ UNCHANGED <<props, changes, dirty, st, runs, seen, out>>

\* A run in flight settles: its producer's promise resolves or rejects.
Complete(r) ==
  /\ (mounted \/ torn) /\ ~dirty
  /\ r \in runs
  /\ runs' = runs \ {r}
  /\ \E o \in Outcomes(r) :
       IF Applies(r)
         THEN /\ st' = [st EXCEPT ![r.stage] = o]
              /\ dirty' = TRUE
         ELSE UNCHANGED <<st, dirty>>
  /\ fired' = NoCall
  /\ last' = [step |-> "settle", invoked |-> {}, settled |-> {r}]
  /\ UNCHANGED <<props, changes, mounted, torn, token, seen, shown, out,
                 surface, context2d>>

Settle == \E r \in runs : Complete(r)

Next == HostUpdate \/ Render \/ Settle \/ Unmount

Spec == Init /\ [][Next]_vars

\* The event loop runs an outstanding update pass, and a producer's promise
\* that can settle does settle.
FairSpec == Spec /\ WF_vars(Render) /\ WF_vars(Settle)

\* The component under a host that passes no callbacks: the callback effects
\* then do nothing, and what is left is the pipeline and the render sink.
SinkInit == Init /\ props.handlers = Undefined

SinkHostUpdate ==
  \E np \in Props : np.handlers = Undefined /\ HostUpdateTo(np)

SinkNext == SinkHostUpdate \/ Render \/ Settle \/ Unmount

SinkFairSpec ==
  SinkInit /\ [][SinkNext]_vars /\ WF_vars(Render) /\ WF_vars(Settle)

\* ----------------------------------------------------------------- claims
Terminal == {"success", "failure"}

\* C1: a run's completion changes its stage's state if and only if the run
\* is the most recently started run of the stage (its token is the stage's
\* current token); a superseded run that completes later changes nothing.
C1_OnlyLatestRunApplies ==
  [][\A r \in runs :
       r \notin runs' =>
         /\ (st'[r.stage] # st[r.stage]) <=> (r.tok = token[r.stage])
         /\ \A s \in StageSet \ {r.stage} : st'[s] = st[s]]_vars

\* A superseded run has just completed after the newer run's result was
\* published, and the stage still holds the newer run's result.
C1_Witness ==
  /\ last.step = "settle"
  /\ \E r \in last.settled :
       /\ r.tok < token[r.stage]
       /\ st[r.stage].status = "success"
       /\ st[r.stage].data[1] = token[r.stage]

\* C2: while the buffer stage is Pending or Failure neither the document
\* stage nor the page stage moves to Success or Failure, and while the
\* document stage is not Success the page stage does not either.
C2_BlockedDownstream ==
  [][/\ st["buffer"].status \in {"pending", "failure"} =>
          \A s \in {"document", "page"} :
             st'[s].status \in Terminal => st'[s] = st[s]
     /\ st["document"].status # "success" =>
          (st'["page"].status \in Terminal => st'["page"] = st["page"])]_vars

\* A document run started before the source changed has completed while
\* the buffer stage was Pending again, and the document stage did not move.
C2_Witness ==
  /\ last.step = "settle"
  /\ \E r \in last.settled : r.stage = "document"
  /\ st["buffer"].status = "pending"
  /\ st["document"].status = "pending"

\* C3: a host update that changes only the page index while the document
\* stage is Success invokes the page producer alone and leaves the buffer
\* and document stages' states as they are.
C3_PageChangeRerunsPageOnly ==
  [][(/\ mounted /\ ~dirty
      /\ props'.page # props.page
      /\ [props' EXCEPT !.page = props.page] = props
      /\ st["document"].status = "success")
       => /\ last'.invoked = {"page"}
          /\ st'["buffer"] = st["buffer"]
          /\ st'["document"] = st["document"]]_vars

\* A host update has just re-run the page stage alone under a decoded
\* document.
C3_Witness ==
  /\ last.step = "host"
  /\ last.invoked = {"page"}
  /\ st["document"].status = "success"
  /\ st["page"].status = "pending"

\* C4: loading is true iff one of the three published stage results is
\* Pending, and the loading fallback is displayed exactly when loading is
\* true.
C4_LoadingIffPending ==
  mounted =>
    /\ out.loading <=> \E s \in StageSet : seen.st[s].status = "pending"
    /\ (shown = "loading") <=> out.loading

\* The loading fallback is displayed while the page stage alone is Pending.
C4_Witness ==
  /\ mounted
  /\ shown = "loading"
  /\ seen.st["buffer"].status = "success"
  /\ seen.st["document"].status = "success"
  /\ seen.st["page"].status = "pending"

\* The error of the first stage in Failure, scanning buffer, document, page;
\* false when no stage is in Failure.
FirstFailure(r) ==
  IF r["buffer"].status = "failure" THEN r["buffer"].error
  ELSE IF r["document"].status = "failure" THEN r["document"].error
  ELSE IF r["page"].status = "failure" THEN r["page"].error
  ELSE JsFalse

\* C5: the derived error is the error of the first stage in Failure in the
\* order buffer, document, page, whatever the error value, and is absent
\* only when no stage is in Failure.
C5_ErrorIsFirstFailure ==
  mounted => out.error = FirstFailure(seen.st)

Count(calls, cb) == Len(SelectSeq(calls, LAMBDA c : c.cb = cb))

\* C6: with callbacks passed before and after it, an update pass invokes onDocumentSuccess,
\* onPageSuccess and onSuccess exactly once when it publishes the
\* corresponding transition into success, and not at all when that state is
\* unchanged, whatever else changed.
C6_SuccessCallbacksOncePerTransition ==
  [][(props.handlers # Undefined /\ props'.handlers # Undefined) =>
       LET pass == last'.step # "settle"
           entered(s) ==
             pass /\ st[s].status = "success" /\ st[s] # seen.st[s]
       IN /\ Count(fired', "onDocumentSuccess") =
               (IF entered("document") THEN 1 ELSE 0)
          /\ Count(fired', "onPageSuccess") =
               (IF entered("page") THEN 1 ELSE 0)
          /\ Count(fired', "onSuccess") =
               (IF pass /\ IsSuccess(st["page"]) /\ ~out.success
                  THEN 1 ELSE 0)]_vars

\* C7: with callbacks passed before and after it, an update pass that publishes a stage's
\* transition into Failure invokes onFailure exactly once, with that
\* stage's error; any other update pass does not invoke it.
C7_OnFailureOncePerFailure ==
  [][(props.handlers # Undefined /\ props'.handlers # Undefined) =>
       LET pass == last'.step # "settle"
           failing ==
             {s \in StageSet :
                pass /\ st[s].status = "failure" /\ st[s] # seen.st[s]}
       IN /\ failing = {} => Count(fired', "onFailure") = 0
          /\ \A s \in failing :
               SelectSeq(fired', LAMBDA c : c.cb = "onFailure") =
                 Call("onFailure", NoData, st[s].error)]_vars

\* Nothing is outstanding: no update pass, no run in flight.
Quiescent == mounted /\ ~dirty /\ runs = {}

\* C8: once a stage has failed and everything has settled, the error
\* fallback is what is displayed (not the loading fallback, not the canvas).
C8_FailureShowsErrorFallback ==
  (Quiescent /\ \E s \in StageSet : st[s].status = "failure")
    => shown = "error"

NoFailure == \A s \in StageSet : st[s].status # "failure"

\* The page is on the canvas: the page stage is Success, nothing is loading,
\* the canvas is displayed and has the size of the page's viewport at the
\* requested scale (1 when none is given).
PageRendered ==
  /\ st["page"].status = "success"
  /\ ~out.loading
  /\ shown = "canvas"
  /\ surface = Viewport(st["page"].data, Default(props.scale, 1))

OwnKey(s, p, r) ==
  CASE s = "buffer" -> <<p.type, p.value, p.fetchOptions, Idle, Undefined>>
    [] s = "document" -> <<"", Undefined, Undefined, r["buffer"], Undefined>>
    [] s = "page" -> <<"", Undefined, Undefined, r["document"], p.page>>

\* C10: a stage in Failure is not retried: while its own dependency key is
\* what it was at the last update pass, no step invokes its producer or
\* changes its state.
C10_FailureNotRetried ==
  [][\A s \in StageSet :
       (st[s].status = "failure"
        /\ OwnKey(s, props', st) = OwnKey(s, seen.props, seen.st))
         => st'[s] = st[s] /\ s \notin last'.invoked]_vars

\* A host update has just left a failed document stage alone while it
\* re-ran the page stage.
C10_Witness ==
  /\ last.step = "host"
  /\ st["document"].status = "failure"
  /\ last.invoked = {"page"}

\* C11: once the component is unmounted, a run that completes changes no
\* stage's state, and no callback is invoked and no draw call is issued.
C11_NothingAfterTeardown ==
  [][torn => (st' = st /\ fired' = NoCall /\ surface' = surface
                /\ ~dirty')]_vars

\* After the unmount the one run the buffer stage ever started has
\* completed, and the stage is still as the unmount left it, Pending.
C11_Witness ==
  /\ torn
  /\ changes = 0
  /\ last.step = "settle"
  /\ \E r \in last.settled : r.stage = "buffer"
  /\ st["buffer"].status = "pending"
\* C12: each callback agrees with what the update pass that invoked it
\* published: onDocumentSuccess(d) with the document stage Success(d),
\* onPageSuccess(p) with the page stage Success(p), onSuccess with the page
\* stage Success, onLoading with loading true.
C12_CallbacksMatchPublishedState ==
  \A i \in 1..Len(fired) :
    LET c == fired[i] IN
      /\ c.cb = "onDocumentSuccess" => seen.st["document"] = Success(c.data)
      /\ c.cb = "onPageSuccess" => seen.st["page"] = Success(c.data)
      /\ c.cb = "onSuccess" =>
           seen.st["page"].status = "success" /\ out.success
      /\ c.cb = "onLoading" =>
           out.loading /\ \E s \in StageSet : seen.st[s].status = "pending"

\* A host update has invoked all three success callbacks on the page it
\* published, and in the same pass has restarted the page stage.
C12_Witness ==
  /\ last.step = "host"
  /\ Count(fired, "onDocumentSuccess") = 1
  /\ Count(fired, "onPageSuccess") = 1
  /\ Count(fired, "onSuccess") = 1
  /\ seen.st["page"].status = "success"
  /\ st["page"].status = "pending"
\* The page was decoded from the document the document stage has published,
\* at the page index the host requests.
CurrentPage(pageData) ==
  /\ seen.st["document"].status = "success"
  /\ pageData[2] = seen.st["document"].data[1]
  /\ pageData[3] = Default(props.page, 1)

\* C13: the page the page stage has published, and the page of every draw
\* call, is a page of the document the document stage holds, at the page
\* index the host currently requests.
C13_NoSupersededPage ==
  /\ (mounted /\ seen.st["page"].status = "success")
       => CurrentPage(seen.st["page"].data)
  /\ \A i \in 1..Len(fired) :
       fired[i].cb = "draw" => CurrentPage(fired[i].data)
\* What a step of the render sink may be: a draw call only with the canvas
\* mounted and the page stage Success, then with the canvas resized to the
\* drawn page's viewport at the requested scale; otherwise no draw call and
\* no resize (a canvas just mounted has the browser's default size); and,
\* when withContext says so, one draw call on each change of scale made
\* while the canvas stays mounted and the page stage stays Success.
RenderSinkStep(withContext) ==
  LET pass == last'.step \in {"mount", "render", "host"}
      draw == SelectSeq(fired', LAMBDA c : c.cb = "draw")
      canvas == shown' = "canvas"
      pg == st["page"]
      ready == canvas /\ pg.status = "success"
      viewport == Viewport(pg.data, Default(props'.scale, 1))
  IN pass =>
       /\ draw # NoCall =>
            ready /\ draw = Call("draw", pg.data, NoError)
                  /\ surface' = viewport
       /\ ~ready =>
            /\ draw = NoCall
            /\ surface' = IF ~canvas THEN NoSurface
                           ELSE IF shown = "canvas" THEN surface
                           ELSE DefaultSurface
       /\ (ready /\ shown = "canvas" /\ pg = seen.st["page"]
            /\ props'.scale # props.scale /\ withContext)
            => draw = Call("draw", pg.data, NoError) /\ surface' = viewport

\* C14 as stated: every change of scale under a mounted canvas and a page
\* stage in Success is drawn.
C14_EveryScaleChangeDrawn ==
  [][RenderSinkStep(TRUE)]_vars

\* C14: the render sink draws only with the canvas mounted and the page
\* stage Success, and is otherwise a no-op that neither draws nor resizes;
\* while the canvas stays mounted, yields a 2d context, and the page stage
\* stays Success, each change of scale causes exactly one draw at the new
\* scale on the canvas resized to the page's viewport.
C14_RenderSink ==
  [][RenderSinkStep(context2d')]_vars

\* A host update has changed the scale alone under a drawn page, and the
\* page has been drawn again at scale 2.
C14_Witness ==
  /\ last.step = "host"
  /\ last.invoked = {}
  /\ props.scale = 2 /\ seen.props.scale = 2
  /\ st["page"].status = "success"
  /\ fired = Call("draw", st["page"].data, NoError)
  /\ surface = Viewport(st["page"].data, 2)
\* A host update has just requested another page index than that of the
\* page on the canvas.
PageChanged ==
  /\ last.step = "host"
  /\ seen.st["page"].status = "success"
  /\ seen.st["page"].data[3] # Default(props.page, 1)
  /\ shown = "canvas" /\ context2d
  /\ surface = Viewport(seen.st["page"].data, Default(props.scale, 1))

\* An update pass has just published the requested page and, when its
\* canvas yields a 2d context, has resized the canvas to the page's
\* viewport and issued one draw call, for that page.
Redrawn ==
  /\ last.step = "render"
  /\ st["page"].status = "success"
  /\ st["page"].data[3] = Default(props.page, 1)
  /\ seen.st["page"] = st["page"]
  /\ shown = "canvas"
  /\ context2d =>
       /\ SelectSeq(fired, LAMBDA c : c.cb = "draw") =
            Call("draw", st["page"].data, NoError)
       /\ surface = Viewport(st["page"].data, Default(props.scale, 1))

C16_ProducerOncePerKey ==
  [][LET pass == last'.step \in {"mount", "render", "host"}
         started == runs' \ runs
     IN \A s \in StageSet :
          LET invoked ==
                pass /\ (~mounted
                          \/ OwnKey(s, props', st) # OwnKey(s, seen.props, seen.st))
          IN /\ (s \in last'.invoked) <=> invoked
             /\ token'[s] = (IF invoked THEN token[s] + 1
                             ELSE IF last'.step = "unmount" THEN 0
                             ELSE token[s])
             /\ Cardinality({r \in started : r.stage = s}) <=
                  (IF invoked THEN 1 ELSE 0)
             /\ \A r \in started : r.stage = s => r.tok = token'[s]]_vars

\* A host update that left every key as it was has invoked no producer,
\* under a page stage in Success.
C16_Witness ==
  /\ last.step = "host"
  /\ last.invoked = {}
  /\ st["page"].status = "success"
  /\ props.handlers # Undefined
  /\ Count(fired, "onSuccess") = 1
\* The transitions of the stage state machine between two different
\* states: into Pending from any state, out of Pending into Success or
\* Failure.
Transition(from, to) ==
  \/ to = Pending
  \/ from = Pending /\ to.status \in Terminal

\* C17: a stage's state, and the state the update passes publish, changes
\* only by a transition of the state machine; a stage becomes Pending only
\* in an update pass that saw its key change, and Success or Failure only
\* from Pending, by the completion of one of its runs.  So it never goes
\* from Success to Failure or back, and never returns to Idle.
C17_StageStateMachine ==
  [][\A s \in StageSet :
       /\ st'[s] # st[s] =>
            /\ Transition(st[s], st'[s])
            /\ st'[s] = Pending =>
                 last'.step \in {"mount", "render", "host"}
                 /\ s \in last'.invoked
            /\ st'[s].status \in Terminal =>
                 last'.step = "settle"
                 /\ \E r \in last'.settled : r.stage = s
       /\ seen'.st[s] # seen.st[s] => Transition(seen.st[s], seen'.st[s])]_vars

\* An update pass has just set the document stage, which it published as
\* Success, back to Pending: the buffer stage's result had changed.
C17_Witness ==
  /\ last.step = "render"
  /\ "document" \in last.invoked
  /\ seen.st["document"].status = "success"
  /\ st["document"] = Pending
\* C18: with callbacks passed before and after it, an update pass invokes
\* onLoading exactly once when it publishes loading true after loading
\* false (the first loading included), and not at all when loading stays
\* true or is false.
C18_OnLoadingOncePerStart ==
  [][(props.handlers # Undefined /\ props'.handlers # Undefined) =>
       LET pass == last'.step \in {"mount", "render", "host"}
           loading == Loading(st["buffer"], st["document"], st["page"])
       IN Count(fired', "onLoading") =
            (IF pass /\ loading /\ ~out.loading THEN 1 ELSE 0)]_vars
\* C19: the canvas is displayed only when the page stage the update pass
\* published is Success; otherwise the loading fallback or the error
\* fallback is.
C19_CanvasOnlyOnSuccess ==
  mounted =>
    /\ shown = "canvas" => seen.st["page"].status = "success"
    /\ seen.st["page"].status # "success" => shown \in {"loading", "error"}
\* Nothing is outstanding and no stage is Pending.
Settled ==
  Quiescent /\ \A s \in StageSet : st[s].status # "pending"

\* C20: when nothing is outstanding and no stage is Pending, the page stage
\* is Success only if the document stage is, and the document stage only if
\* the buffer stage is; so success and a draw call never come with a stage
\* in Failure, and at most one stage is in Failure.
C20_SuccessImpliesUpstreamSuccess ==
  Settled =>
    /\ st["page"].status = "success" => st["document"].status = "success"
    /\ st["document"].status = "success" => st["buffer"].status = "success"
    /\ (out.success \/ Count(fired, "draw") > 0 \/ Count(fired, "onSuccess") > 0)
         => NoFailure
    /\ Cardinality({s \in StageSet : st[s].status = "failure"}) <= 1

\* After the host changed the source, the second buffer run, the document
\* and the page have all settled in Success.
C20_Witness ==
  /\ Settled
  /\ token["buffer"] = 2
  /\ st["buffer"].status = "success" /\ st["buffer"].data[1] = 2
  /\ st["page"].status = "success"
  /\ out.success
====
